---- MODULE Spec2Model ----
(***************************************************************************)
(* Model of the certificate bridge, the auth-token protocol and the CSR    *)
(* builder of fabric-sdk-go's national-algorithm (SM2) port.               *)
(*                                                                         *)
(* Go strings and byte slices are sequences of byte values 0..255; a nil   *)
(* slice and an empty slice are both the empty sequence.  A Go error is a  *)
(* chain of messages, outermost first; the nil error is the empty chain.   *)
(***************************************************************************)
EXTENDS Integers, Sequences, FiniteSets, TLC

VARIABLES
    op,      \* the operation this run exercises
    pc,      \* "call" before the operation has run, "done" after
    cert,    \* bridge: the certificate currently held (either representation)
    orig,    \* bridge: the certificate the caller started from
    hops,    \* bridge: number of conversions applied so far
    tin,     \* token protocol: arguments of the call
    tout,    \* token protocol: returned values
    calls,   \* calls made on collaborators, in order
    gin,     \* CSR builder: arguments of the call
    gout,    \* CSR builder: returned values
    ks,      \* dummy key store: the keys it holds
    hist,    \* calls made on the gm package's objects, with their results
    globals, \* the package-level variables of package util
    thr      \* concurrent invocations: the state of each goroutine

vars == <<op, pc, cert, orig, hops, tin, tout, calls, gin, gout, ks, hist, globals, thr>>

----------------------------------------------------------------------------
(* Bounds of the model *)

MaxLen == 2        \* longest uri / body / signature byte string
MaxEKU == 2        \* longest extended-key-usage list
MaxHops == 3       \* conversions applied in a row
MaxHosts == 3      \* hosts in a request template
MaxPathLen == 1    \* largest PathLength of a CA configuration
NumThreads == 2    \* goroutines calling at the same time
MaxCalls == 3      \* calls in a row on a key store, a key deriver or a hasher

----------------------------------------------------------------------------
(* Values shared by all components *)

Nil == "nil"
NoError == <<>>
None == [none |-> TRUE]

\* errors.New(msg)
NewError(msg) == <<msg>>

\* The package-level variables of package util once the package is
\* initialized: the random source and the exported error value.
PackageVars == [rnd |-> "seeded", ErrNotImplemented |-> NewError("NOT YET IMPLEMENTED")]

\* errors.WithMessage(err, msg) / fmt.Errorf("msg: %s", err.Error())
WithMessage(err, msg) == <<msg>> \o err

\* all sequences over S of length at most n
RECURSIVE SeqsUpTo(_, _)
SeqsUpTo(S, n) ==
    IF n = 0 THEN {<<>>}
    ELSE LET shorter == SeqsUpTo(S, n - 1)
         IN  shorter \cup {Append(s, x) : s \in {t \in shorter : Len(t) = n - 1}, x \in S}

----------------------------------------------------------------------------
(* Certificate Model Bridge: the two certificate representations *)

\* An enum value of one of the two packages: x509.T(v) or sm2.T(v).
Tag(ns, v) == [ns |-> ns, v |-> v]

CertType(ns) == IF ns = "x509" THEN "x509.Certificate" ELSE "sm2.Certificate"

\* A certificate with every field at the zero value a parser leaves it at.
DefaultCert(ns) ==
    [ type |-> CertType(ns),
      Raw                         |-> <<>>,
      RawTBSCertificate           |-> <<>>,
      RawSubjectPublicKeyInfo     |-> <<>>,
      RawSubject                  |-> <<>>,
      RawIssuer                   |-> <<>>,
      Signature                   |-> <<>>,
      SignatureAlgorithm          |-> Tag(ns, 0),
      PublicKeyAlgorithm          |-> Tag(ns, 0),
      PublicKey                   |-> [type |-> "*sm2.PublicKey", Curve |-> "P256Sm2"],
      Version                     |-> 1,
      SerialNumber                |-> 1,
      Issuer                      |-> [CommonName |-> ""],
      Subject                     |-> [CommonName |-> ""],
      NotBefore                   |-> 0,
      NotAfter                    |-> 0,
      KeyUsage                    |-> Tag(ns, 0),
      Extensions                  |-> <<>>,
      ExtraExtensions             |-> <<>>,
      UnhandledCriticalExtensions |-> <<>>,
      UnknownExtKeyUsage          |-> <<>>,
      BasicConstraintsValid       |-> FALSE,
      IsCA                        |-> FALSE,
      MaxPathLen                  |-> 0,
      MaxPathLenZero              |-> FALSE,
      SubjectKeyId                |-> <<>>,
      AuthorityKeyId              |-> <<>>,
      OCSPServer                  |-> <<>>,
      IssuingCertificateURL       |-> <<>>,
      DNSNames                    |-> <<>>,
      EmailAddresses              |-> <<>>,
      IPAddresses                 |-> <<>>,
      PermittedDNSDomainsCritical |-> FALSE,
      PermittedDNSDomains         |-> <<>>,
      CRLDistributionPoints       |-> <<>>,
      PolicyIdentifiers           |-> <<>>,
      ExtKeyUsage                 |-> <<>> ]

\* A certificate with every field set to a value unlike its zero value.
AltCert(ns) ==
    [ type |-> CertType(ns),
      Raw                         |-> <<48, 1>>,
      RawTBSCertificate           |-> <<48, 2>>,
      RawSubjectPublicKeyInfo     |-> <<48, 3>>,
      RawSubject                  |-> <<48, 4>>,
      RawIssuer                   |-> <<48, 5>>,
      Signature                   |-> <<7, 7>>,
      SignatureAlgorithm          |-> Tag(ns, 16),
      PublicKeyAlgorithm          |-> Tag(ns, 3),
      PublicKey                   |-> [type |-> "*ecdsa.PublicKey", Curve |-> "P256"],
      Version                     |-> 3,
      SerialNumber                |-> 2,
      Issuer                      |-> [CommonName |-> "ca"],
      Subject                     |-> [CommonName |-> "admin"],
      NotBefore                   |-> 1,
      NotAfter                    |-> 2,
      KeyUsage                    |-> Tag(ns, 5),
      Extensions                  |-> <<[Id |-> <<2, 5, 29, 15>>, Critical |-> TRUE, Value |-> <<3, 2>>]>>,
      ExtraExtensions             |-> <<[Id |-> <<2, 5, 29, 19>>, Critical |-> TRUE, Value |-> <<48, 0>>]>>,
      UnhandledCriticalExtensions |-> <<<<2, 5, 29, 99>>>>,
      UnknownExtKeyUsage          |-> <<<<1, 2, 3>>>>,
      BasicConstraintsValid       |-> TRUE,
      IsCA                        |-> TRUE,
      MaxPathLen                  |-> 1,
      MaxPathLenZero              |-> TRUE,
      SubjectKeyId                |-> <<9>>,
      AuthorityKeyId              |-> <<8>>,
      OCSPServer                  |-> <<"http://ocsp">>,
      IssuingCertificateURL       |-> <<"http://ca">>,
      DNSNames                    |-> <<"example.org", "b.org">>,
      EmailAddresses              |-> <<"a@b.com">>,
      IPAddresses                 |-> <<"10.0.0.1">>,
      PermittedDNSDomainsCritical |-> TRUE,
      PermittedDNSDomains         |-> <<".org">>,
      CRLDistributionPoints       |-> <<"http://crl">>,
      PolicyIdentifiers           |-> <<<<2, 5, 29, 32, 0>>>>,
      ExtKeyUsage                 |-> <<>> ]

\* x509.SignatureAlgorithm(v), x509.PublicKeyAlgorithm(v), x509.KeyUsage(v),
\* x509.ExtKeyUsage(v): a Go integer conversion keeps the number and changes
\* the type.
X509SignatureAlgorithm(t) == Tag("x509", t.v)
X509PublicKeyAlgorithm(t) == Tag("x509", t.v)
X509KeyUsage(t) == Tag("x509", t.v)
X509ExtKeyUsage(t) == Tag("x509", t.v)

\* sm2.SignatureAlgorithm(v), sm2.PublicKeyAlgorithm(v), sm2.KeyUsage(v),
\* sm2.ExtKeyUsage(v)
Sm2SignatureAlgorithm(t) == Tag("sm2", t.v)
Sm2PublicKeyAlgorithm(t) == Tag("sm2", t.v)
Sm2KeyUsage(t) == Tag("sm2", t.v)
Sm2ExtKeyUsage(t) == Tag("sm2", t.v)

\* The loop below with each entry put in front of the list instead of behind.
RECURSIVE X509ExtKeyUsageLoopPrepend(_, _)
X509ExtKeyUsageLoopPrepend(acc, rest) ==
    IF rest = <<>> THEN acc
    ELSE X509ExtKeyUsageLoopPrepend(<<X509ExtKeyUsage(Head(rest))>> \o acc, Tail(rest))

\* for _, val := range sm2Cert.ExtKeyUsage { append(..., x509.ExtKeyUsage(val)) }
RECURSIVE X509ExtKeyUsageLoop(_, _)
X509ExtKeyUsageLoop(acc, rest) ==
    IF rest = <<>> THEN acc
    ELSE X509ExtKeyUsageLoop(Append(acc, X509ExtKeyUsage(Head(rest))), Tail(rest))

\* for _, val := range x509Cert.ExtKeyUsage { append(..., sm2.ExtKeyUsage(val)) }
RECURSIVE Sm2ExtKeyUsageLoop(_, _)
Sm2ExtKeyUsageLoop(acc, rest) ==
    IF rest = <<>> THEN acc
    ELSE Sm2ExtKeyUsageLoop(Append(acc, Sm2ExtKeyUsage(Head(rest))), Tail(rest))

ParseSm2Certificate2X509(sm2Cert) ==
    [ type |-> CertType("x509"),
      Raw                         |-> sm2Cert.Raw,
      RawTBSCertificate           |-> sm2Cert.RawTBSCertificate,
      RawSubjectPublicKeyInfo     |-> sm2Cert.RawSubjectPublicKeyInfo,
      RawSubject                  |-> sm2Cert.RawSubject,
      RawIssuer                   |-> sm2Cert.RawIssuer,
      Signature                   |-> sm2Cert.Signature,
      SignatureAlgorithm          |-> X509SignatureAlgorithm(sm2Cert.SignatureAlgorithm),
      PublicKeyAlgorithm          |-> X509PublicKeyAlgorithm(sm2Cert.PublicKeyAlgorithm),
      PublicKey                   |-> sm2Cert.PublicKey,
      Version                     |-> sm2Cert.Version,
      SerialNumber                |-> sm2Cert.SerialNumber,
      Issuer                      |-> sm2Cert.Issuer,
      Subject                     |-> sm2Cert.Subject,
      NotBefore                   |-> sm2Cert.NotBefore,
      NotAfter                    |-> sm2Cert.NotAfter,
      KeyUsage                    |-> X509KeyUsage(sm2Cert.KeyUsage),
      Extensions                  |-> sm2Cert.Extensions,
      ExtraExtensions             |-> sm2Cert.ExtraExtensions,
      UnhandledCriticalExtensions |-> sm2Cert.UnhandledCriticalExtensions,
      UnknownExtKeyUsage          |-> sm2Cert.UnknownExtKeyUsage,
      BasicConstraintsValid       |-> sm2Cert.BasicConstraintsValid,
      IsCA                        |-> sm2Cert.IsCA,
      MaxPathLen                  |-> sm2Cert.MaxPathLen,
      MaxPathLenZero              |-> sm2Cert.MaxPathLenZero,
      SubjectKeyId                |-> sm2Cert.SubjectKeyId,
      AuthorityKeyId              |-> sm2Cert.AuthorityKeyId,
      OCSPServer                  |-> sm2Cert.OCSPServer,
      IssuingCertificateURL       |-> sm2Cert.IssuingCertificateURL,
      DNSNames                    |-> sm2Cert.DNSNames,
      EmailAddresses              |-> sm2Cert.EmailAddresses,
      IPAddresses                 |-> sm2Cert.IPAddresses,
      PermittedDNSDomainsCritical |-> sm2Cert.PermittedDNSDomainsCritical,
      PermittedDNSDomains         |-> sm2Cert.PermittedDNSDomains,
      CRLDistributionPoints       |-> sm2Cert.CRLDistributionPoints,
      PolicyIdentifiers           |-> sm2Cert.PolicyIdentifiers,
      ExtKeyUsage                 |-> X509ExtKeyUsageLoop(<<>>, sm2Cert.ExtKeyUsage) ]

ParseX509Certificate2Sm2(x509Cert) ==
    [ type |-> CertType("sm2"),
      Raw                         |-> x509Cert.Raw,
      RawTBSCertificate           |-> x509Cert.RawTBSCertificate,
      RawSubjectPublicKeyInfo     |-> x509Cert.RawSubjectPublicKeyInfo,
      RawSubject                  |-> x509Cert.RawSubject,
      RawIssuer                   |-> x509Cert.RawIssuer,
      Signature                   |-> x509Cert.Signature,
      SignatureAlgorithm          |-> Sm2SignatureAlgorithm(x509Cert.SignatureAlgorithm),
      PublicKeyAlgorithm          |-> Sm2PublicKeyAlgorithm(x509Cert.PublicKeyAlgorithm),
      PublicKey                   |-> x509Cert.PublicKey,
      Version                     |-> x509Cert.Version,
      SerialNumber                |-> x509Cert.SerialNumber,
      Issuer                      |-> x509Cert.Issuer,
      Subject                     |-> x509Cert.Subject,
      NotBefore                   |-> x509Cert.NotBefore,
      NotAfter                    |-> x509Cert.NotAfter,
      KeyUsage                    |-> Sm2KeyUsage(x509Cert.KeyUsage),
      Extensions                  |-> x509Cert.Extensions,
      ExtraExtensions             |-> x509Cert.ExtraExtensions,
      UnhandledCriticalExtensions |-> x509Cert.UnhandledCriticalExtensions,
      UnknownExtKeyUsage          |-> x509Cert.UnknownExtKeyUsage,
      BasicConstraintsValid       |-> x509Cert.BasicConstraintsValid,
      IsCA                        |-> x509Cert.IsCA,
      MaxPathLen                  |-> x509Cert.MaxPathLen,
      MaxPathLenZero              |-> x509Cert.MaxPathLenZero,
      SubjectKeyId                |-> x509Cert.SubjectKeyId,
      AuthorityKeyId              |-> x509Cert.AuthorityKeyId,
      OCSPServer                  |-> x509Cert.OCSPServer,
      IssuingCertificateURL       |-> x509Cert.IssuingCertificateURL,
      DNSNames                    |-> x509Cert.DNSNames,
      EmailAddresses              |-> x509Cert.EmailAddresses,
      IPAddresses                 |-> x509Cert.IPAddresses,
      PermittedDNSDomainsCritical |-> x509Cert.PermittedDNSDomainsCritical,
      PermittedDNSDomains         |-> x509Cert.PermittedDNSDomains,
      CRLDistributionPoints       |-> x509Cert.CRLDistributionPoints,
      PolicyIdentifiers           |-> x509Cert.PolicyIdentifiers,
      ExtKeyUsage                 |-> Sm2ExtKeyUsageLoop(<<>>, x509Cert.ExtKeyUsage) ]


----------------------------------------------------------------------------
(* Authentication Token Protocol *)

Dot == 46         \* "."
PadChar == 61     \* "=", the padding of base64.StdEncoding

\* The i-th character of the alphabet of base64.StdEncoding: A-Z a-z 0-9 + /
B64Char(i) ==
    IF i < 26 THEN 65 + i
    ELSE IF i < 52 THEN 97 + (i - 26)
    ELSE IF i < 62 THEN 48 + (i - 52)
    ELSE IF i = 62 THEN 43 ELSE 47

\* base64.StdEncoding.EncodeToString(buf): three bytes become four
\* characters, a last group of one or two bytes is padded with "=".
RECURSIVE B64Encode(_)
B64Encode(buf) ==
    IF Len(buf) = 0 THEN <<>>
    ELSE IF Len(buf) = 1 THEN
        LET n == buf[1] * 65536
        IN  <<B64Char(n \div 262144), B64Char((n \div 4096) % 64), PadChar, PadChar>>
    ELSE IF Len(buf) = 2 THEN
        LET n == buf[1] * 65536 + buf[2] * 256
        IN  <<B64Char(n \div 262144), B64Char((n \div 4096) % 64),
              B64Char((n \div 64) % 64), PadChar>>
    ELSE
        LET n == buf[1] * 65536 + buf[2] * 256 + buf[3]
        IN  <<B64Char(n \div 262144), B64Char((n \div 4096) % 64),
              B64Char((n \div 64) % 64), B64Char(n % 64)>>
            \o B64Encode(SubSeq(buf, 4, Len(buf)))

\* The messages of the errors this package creates.
ErrInvalidPEM == NewError("Failed to PEM decode certificate")
ErrEmptySignature ==
    NewError("BCCSP signature creation failed. Signature must be different than nil")
MsgDigestFailed == "Hash failed on '%s'"
MsgSignatureFailed == "BCCSP signature generation failure"

\* A nil *x509.Certificate / *sm2.Certificate.
NilCert == [type |-> "nil"]

\* pem.Decode(cert): the first PEM block of the input, or no block.  The
\* inputs of the model are short stand-ins for PEM files: input <<>> is the
\* empty file, <<45>> a file with a broken armour line, the others hold one
\* block whose DER bytes follow.
NoBlock == [found |-> FALSE, Bytes |-> <<>>]
PemDecode(certBytes) ==
    IF Len(certBytes) >= 2 /\ certBytes[1] = 45
    THEN [found |-> TRUE, Bytes |-> <<48>> \o Tail(certBytes)]
    ELSE NoBlock

\* The public key types a parsed certificate can carry.
PubSM2 == [type |-> "*sm2.PublicKey", Curve |-> "P256Sm2"]
PubSM2OtherCurve == [type |-> "*sm2.PublicKey", Curve |-> "P256"]
PubECDSA == [type |-> "*ecdsa.PublicKey", Curve |-> "P256"]
PubRSA == [type |-> "*rsa.PublicKey", Curve |-> "none"]

\* sm2.ParseCertificate(der): the national parser.  DER <<48, 1>> holds a
\* certificate with a national key, <<48, 2>> one with an ECDSA key,
\* <<48, 3, 3>> one with an RSA key; anything else is rejected.
Sm2ParseCertificate(der) ==
    LET base == [DefaultCert("sm2") EXCEPT !.Raw = der, !.ExtKeyUsage = <<Tag("sm2", 2)>>]
    IN  IF der = <<48, 1>> THEN
            [cert |-> [base EXCEPT !.PublicKey = PubSM2, !.Subject = [CommonName |-> "admin"]],
             err |-> NoError]
        ELSE IF der = <<48, 2>> THEN
            [cert |-> [base EXCEPT !.PublicKey = PubECDSA, !.Subject = [CommonName |-> "user"]],
             err |-> NoError]
        ELSE IF der = <<48, 3, 3>> THEN
            [cert |-> [base EXCEPT !.PublicKey = PubRSA, !.Subject = [CommonName |-> ""]],
             err |-> NoError]
        ELSE [cert |-> NilCert, err |-> NewError("x509: malformed certificate")]

\* GetX509CertificateFromPEM that reports a missing block as a nil
\* certificate without an error.
GetX509CertificateFromPEMSilent(certBytes) ==
    LET block == PemDecode(certBytes)
    IN  IF ~block.found THEN [cert |-> NilCert, err |-> NoError]
        ELSE LET parsed == Sm2ParseCertificate(block.Bytes)
             IN  IF parsed.err = NoError
                 THEN [cert |-> ParseSm2Certificate2X509(parsed.cert), err |-> NoError]
                 ELSE [cert |-> NilCert, err |-> NoError]

\* GetX509CertificateFromPEM(cert)
GetX509CertificateFromPEM(certBytes) ==
    LET block == PemDecode(certBytes)
    IN  IF ~block.found THEN [cert |-> NilCert, err |-> ErrInvalidPEM]
        ELSE LET parsed == Sm2ParseCertificate(block.Bytes)
             IN  IF parsed.err = NoError
                 THEN [cert |-> ParseSm2Certificate2X509(parsed.cert), err |-> NoError]
                 ELSE [cert |-> NilCert, err |-> NoError]

\* A call on the crypto provider, as recorded in the call log.
HashCall(msg) == [fn |-> "Hash", msg |-> msg, opts |-> "SHAOpts", key |-> Nil]
SignCall(key, digest) == [fn |-> "Sign", msg |-> digest, opts |-> Nil, key |-> key]

\* What a call of the token protocol returns: the token, the error, whether
\* it panicked instead of returning, and the provider calls it made.
TokenResult(token, err, log) ==
    [token |-> token, err |-> err, panicked |-> FALSE, calls |-> log]
PanicResult(log) ==
    [token |-> <<>>, err |-> NoError, panicked |-> TRUE, calls |-> log]

\* genECDSAToken without the check of the signature's length.
genECDSATokenNoLengthCheck(csp, key, b64cert, payload) ==
    LET hashed == <<HashCall(payload)>>
        signed == Append(hashed, SignCall(key, csp.hash.digest))
    IN  IF csp.hash.err # NoError
        THEN TokenResult(<<>>, WithMessage(csp.hash.err, MsgDigestFailed), hashed)
        ELSE IF csp.sign.err # NoError
        THEN TokenResult(<<>>, WithMessage(csp.sign.err, MsgSignatureFailed), signed)
        ELSE TokenResult(b64cert \o <<Dot>> \o B64Encode(csp.sign.signature),
                         NoError, signed)

\* genECDSAToken emitting the signature before the certificate.
genECDSATokenSwapped(csp, key, b64cert, payload) ==
    LET hashed == <<HashCall(payload)>>
        signed == Append(hashed, SignCall(key, csp.hash.digest))
    IN  IF csp.hash.err # NoError
        THEN TokenResult(<<>>, WithMessage(csp.hash.err, MsgDigestFailed), hashed)
        ELSE IF csp.sign.err # NoError
        THEN TokenResult(<<>>, WithMessage(csp.sign.err, MsgSignatureFailed), signed)
        ELSE IF Len(csp.sign.signature) = 0
        THEN TokenResult(<<>>, ErrEmptySignature, signed)
        ELSE TokenResult(B64Encode(csp.sign.signature) \o <<Dot>> \o b64cert,
                         NoError, signed)

\* genECDSAToken signing the payload itself instead of its digest.
genECDSATokenSignsPayload(csp, key, b64cert, payload) ==
    LET hashed == <<HashCall(payload)>>
        signed == Append(hashed, SignCall(key, payload))
    IN  IF csp.hash.err # NoError
        THEN TokenResult(<<>>, WithMessage(csp.hash.err, MsgDigestFailed), hashed)
        ELSE IF csp.sign.err # NoError
        THEN TokenResult(<<>>, WithMessage(csp.sign.err, MsgSignatureFailed), signed)
        ELSE IF Len(csp.sign.signature) = 0
        THEN TokenResult(<<>>, ErrEmptySignature, signed)
        ELSE TokenResult(b64cert \o <<Dot>> \o B64Encode(csp.sign.signature),
                         NoError, signed)

\* genECDSAToken(csp, key, b64cert, payload).  csp is a provider whose Hash
\* answers csp.hash = [digest, err] and whose Sign answers
\* csp.sign = [signature, err].
genECDSAToken(csp, key, b64cert, payload) ==
    LET hashed == <<HashCall(payload)>>
        signed == Append(hashed, SignCall(key, csp.hash.digest))
    IN  IF csp.hash.err # NoError
        THEN TokenResult(<<>>, WithMessage(csp.hash.err, MsgDigestFailed), hashed)
        ELSE IF csp.sign.err # NoError
        THEN TokenResult(<<>>, WithMessage(csp.sign.err, MsgSignatureFailed), signed)
        ELSE IF Len(csp.sign.signature) = 0
        THEN TokenResult(<<>>, ErrEmptySignature, signed)
        ELSE TokenResult(b64cert \o <<Dot>> \o B64Encode(csp.sign.signature),
                         NoError, signed)

\* GenECDSAToken that never switches to the Fabric CA 1.3 payload.
GenECDSATokenNoCompat(csp, certBytes, key, method, uri, body, fabCACompatibilityMode) ==
    LET b64body == B64Encode(body)
        b64cert == B64Encode(certBytes)
        b64uri == B64Encode(uri)
        payload == method \o <<Dot>> \o b64uri \o <<Dot>> \o b64body
                   \o <<Dot>> \o b64cert
    IN  genECDSAToken(csp, key, b64cert, payload)

\* GenECDSAToken(csp, cert, key, method, uri, body, fabCACompatibilityMode)
GenECDSAToken(csp, certBytes, key, method, uri, body, fabCACompatibilityMode) ==
    LET b64body == B64Encode(body)
        b64cert == B64Encode(certBytes)
        b64uri == B64Encode(uri)
        payload == IF fabCACompatibilityMode
                   THEN b64body \o <<Dot>> \o b64cert
                   ELSE method \o <<Dot>> \o b64uri \o <<Dot>> \o b64body
                        \o <<Dot>> \o b64cert
    IN  genECDSAToken(csp, key, b64cert, payload)

\* CreateToken without the case for *ecdsa.PublicKey.
CreateTokenSM2Only(csp, certBytes, key, method, uri, body, fabCACompatibilityMode) ==
    LET got == GetX509CertificateFromPEM(certBytes)
    IN  IF got.err # NoError THEN TokenResult(<<>>, got.err, <<>>)
        ELSE IF got.cert.type = "nil" THEN PanicResult(<<>>)
        ELSE IF got.cert.PublicKey.type = "*sm2.PublicKey"
        THEN GenECDSAToken(csp, certBytes, key, method, uri, body,
                           fabCACompatibilityMode)
        ELSE TokenResult(<<>>, NoError, <<>>)

\* CreateToken(csp, cert, key, method, uri, body, fabCACompatibilityMode).
\* Reading PublicKey of a nil certificate is a nil-pointer dereference.
CreateToken(csp, certBytes, key, method, uri, body, fabCACompatibilityMode) ==
    LET got == GetX509CertificateFromPEM(certBytes)
    IN  IF got.err # NoError THEN TokenResult(<<>>, got.err, <<>>)
        ELSE IF got.cert.type = "nil" THEN PanicResult(<<>>)
        ELSE IF got.cert.PublicKey.type \in {"*ecdsa.PublicKey", "*sm2.PublicKey"}
        THEN GenECDSAToken(csp, certBytes, key, method, uri, body,
                           fabCACompatibilityMode)
        ELSE TokenResult(<<>>, NoError, <<>>)

\* GetEnrollmentIDFromX509Certificate(cert): cert.Subject.CommonName
GetEnrollmentIDFromX509Certificate(x509Cert) == x509Cert.Subject.CommonName

\* What GetEnrollmentIDFromPEM returns: the id, the error, whether it panicked.
\* GetEnrollmentIDFromPEM(cert)
GetEnrollmentIDFromPEM(certBytes) ==
    LET got == GetX509CertificateFromPEM(certBytes)
    IN  IF got.err # NoError THEN [id |-> "", err |-> got.err, panicked |-> FALSE]
        ELSE IF got.cert.type = "nil" THEN [id |-> "", err |-> NoError, panicked |-> TRUE]
        ELSE [id |-> GetEnrollmentIDFromX509Certificate(got.cert),
              err |-> NoError, panicked |-> FALSE]


----------------------------------------------------------------------------
(* TLS configuration: validity check of the client certificate *)

MsgReadFailed == "Failed to read file '%s'"
ErrExpired == NewError("Certificate provided has expired")
ErrNotYetValid == NewError("Certificate provided not valid until later date")

\* checkCertDates(certFile): file is what ioutil.ReadFile(certFile) answers,
\* [bytes, err]; now is time.Now().UTC().  Reading NotAfter of a nil
\* certificate is a nil-pointer dereference.
checkCertDates(file, now) ==
    LET got == GetX509CertificateFromPEM(file.bytes)
    IN  IF file.err # NoError
        THEN [err |-> WithMessage(file.err, MsgReadFailed), panicked |-> FALSE]
        ELSE IF got.err # NoError THEN [err |-> got.err, panicked |-> FALSE]
        ELSE IF got.cert.type = "nil" THEN [err |-> NoError, panicked |-> TRUE]
        ELSE IF now > got.cert.NotAfter THEN [err |-> ErrExpired, panicked |-> FALSE]
        ELSE IF now < got.cert.NotBefore
        THEN [err |-> ErrNotYetValid, panicked |-> FALSE]
        ELSE [err |-> NoError, panicked |-> FALSE]

----------------------------------------------------------------------------
(* CSR Builder *)

UnknownSignatureAlgorithm == Tag("sm2", 0)
SM2WithSM3 == Tag("sm2", 16)

ErrKeyUnavailable == NewError("Private key is unavailable ")
MsgAppendCAInfo == "failed to appendCAInfoToCSRSm2 :%s"
ErrMarshal == NewError("asn1: structure error")
BasicConstraintsOID == <<2, 5, 29, 19>>

\* A nil *csr.CAConfig.
NilCA == [isNil |-> TRUE, PathLength |-> 0, PathLenZero |-> FALSE]

\* net.ParseIP(s): the parsed address, or nil when s is no IP literal.
ParseIP(s) ==
    IF s = "10.0.0.1" THEN [ok |-> TRUE, ip |-> <<10, 0, 0, 1>>]
    ELSE IF s = "::1" THEN [ok |-> TRUE, ip |-> <<0, 0, 0, 1>>]
    ELSE [ok |-> FALSE, ip |-> <<>>]

\* mail.ParseAddress(s): the parsed address (display name stripped), or an
\* error when s is no RFC 5322 address.
ParseAddress(s) ==
    IF s = "a@b.com" THEN [ok |-> TRUE, Address |-> "a@b.com"]
    ELSE IF s = "Bob <bob@b.com>" THEN [ok |-> TRUE, Address |-> "bob@b.com"]
    ELSE [ok |-> FALSE, Address |-> ""]

\* signerAlgo that takes every elliptic-curve key for a national key.
signerAlgoAnyEC(pub) ==
    IF pub.type \in {"*sm2.PublicKey", "*ecdsa.PublicKey"}
    THEN SM2WithSM3
    ELSE UnknownSignatureAlgorithm

\* signerAlgo(priv): priv.Public() is the signer's public key.
signerAlgo(pub) ==
    IF pub.type = "*sm2.PublicKey"
    THEN IF pub.Curve = "P256Sm2" THEN SM2WithSM3 ELSE SM2WithSM3
    ELSE UnknownSignatureAlgorithm

\* The loop below without the else branches: an IP literal or an email
\* address is also taken as a DNS name.
RECURSIVE ClassifyHostsFallThrough(_, _, _)
ClassifyHostsFallThrough(tpl, hosts, i) ==
    IF i > Len(hosts) THEN tpl
    ELSE LET t1 == IF ParseIP(hosts[i]).ok
                   THEN [tpl EXCEPT !.IPAddresses = Append(@, ParseIP(hosts[i]).ip)]
                   ELSE tpl
             t2 == IF ~ParseIP(hosts[i]).ok /\ ParseAddress(hosts[i]).ok
                   THEN [t1 EXCEPT !.EmailAddresses =
                                       Append(@, ParseAddress(hosts[i]).Address)]
                   ELSE t1
         IN  ClassifyHostsFallThrough([t2 EXCEPT !.DNSNames = Append(@, hosts[i])],
                                      hosts, i + 1)

\* The loop of generate over req.Hosts, from host i on.
RECURSIVE ClassifyHosts(_, _, _)
ClassifyHosts(tpl, hosts, i) ==
    IF i > Len(hosts) THEN tpl
    ELSE IF ParseIP(hosts[i]).ok
    THEN ClassifyHosts([tpl EXCEPT !.IPAddresses = Append(@, ParseIP(hosts[i]).ip)],
                       hosts, i + 1)
    ELSE IF ParseAddress(hosts[i]).ok
    THEN ClassifyHosts([tpl EXCEPT !.EmailAddresses =
                                       Append(@, ParseAddress(hosts[i]).Address)],
                       hosts, i + 1)
    ELSE ClassifyHosts([tpl EXCEPT !.DNSNames = Append(@, hosts[i])], hosts, i + 1)

\* The path length below with PathLenZero ignored.
PathLenConstraintIgnoringZeroFlag(reqConf) ==
    IF reqConf.PathLength = 0 THEN -1 ELSE reqConf.PathLength

\* The path length appendCAInfoToCSRSm2 encodes.
PathLenConstraint(reqConf) ==
    IF reqConf.PathLength = 0 /\ ~reqConf.PathLenZero THEN -1 ELSE reqConf.PathLength

\* asn1.Marshal(csr.BasicConstraints{true, pathlen}); marshalFails is the
\* encoder's verdict.
Asn1MarshalBasicConstraints(pathlen, marshalFails) ==
    IF marshalFails THEN [val |-> None, err |-> ErrMarshal]
    ELSE [val |-> [IsCA |-> TRUE, MaxPathLen |-> pathlen], err |-> NoError]

\* appendCAInfoToCSRSm2 leaving the extension non-critical.
appendCAInfoToCSRSm2NotCritical(reqConf, csreq, marshalFails) ==
    LET m == Asn1MarshalBasicConstraints(PathLenConstraint(reqConf), marshalFails)
    IN  IF m.err # NoError THEN [csreq |-> csreq, err |-> m.err]
        ELSE [csreq |-> [csreq EXCEPT !.ExtraExtensions =
                            <<[Id |-> BasicConstraintsOID, Value |-> m.val,
                               Critical |-> FALSE]>>],
              err |-> NoError]

\* appendCAInfoToCSRSm2(reqConf, csreq)
appendCAInfoToCSRSm2(reqConf, csreq, marshalFails) ==
    LET m == Asn1MarshalBasicConstraints(PathLenConstraint(reqConf), marshalFails)
    IN  IF m.err # NoError THEN [csreq |-> csreq, err |-> m.err]
        ELSE [csreq |-> [csreq EXCEPT !.ExtraExtensions =
                            <<[Id |-> BasicConstraintsOID, Value |-> m.val,
                               Critical |-> TRUE]>>],
              err |-> NoError]

\* gm.CreateSm2CertificateRequestToMem(tpl, key): signs the request with the
\* key and encodes it.  signer is the answer of the key's signing primitive,
\* [signature, err].
ErrCSREmptySignature == NewError("EmptySignature")
CreateSm2CertificateRequestToMem(tpl, key, signer) ==
    IF signer.err # NoError THEN [csr |-> None, err |-> signer.err]
    ELSE IF Len(signer.signature) = 0 THEN [csr |-> None, err |-> ErrCSREmptySignature]
    ELSE [csr |-> [request |-> tpl, key |-> key, signature |-> signer.signature],
          err |-> NoError]

\* What generate returns, with the reads of the template and the calls on
\* collaborators it made, in order.
GenResult(csr, err, log) == [csr |-> csr, err |-> err, calls |-> log]

\* generate(priv, req, key) in the environment env: env.marshalFails is the
\* ASN.1 encoder's verdict, env.signer the answer of the signing primitive.
generate(priv, req, key, env) ==
    LET sigAlgo == signerAlgo(priv.Public)
        log0 == <<"priv.Public">>
        tpl0 == [Subject |-> req.Name, SignatureAlgorithm |-> sigAlgo,
                 IPAddresses |-> <<>>, EmailAddresses |-> <<>>, DNSNames |-> <<>>,
                 ExtraExtensions |-> <<>>]
        tpl1 == ClassifyHosts(tpl0, req.Hosts, 1)
        log1 == log0 \o <<"req.Name", "req.Hosts", "req.CA">>
        ca == appendCAInfoToCSRSm2(req.CA, tpl1, env.marshalFails)
        tpl2 == IF req.CA.isNil THEN tpl1 ELSE ca.csreq
        log2 == IF req.CA.isNil THEN log1 ELSE Append(log1, "asn1.Marshal")
        made == CreateSm2CertificateRequestToMem(tpl2, key, env.signer)
        log3 == log2 \o <<"req.SerialNumber", "gm.CreateSm2CertificateRequestToMem">>
    IN  IF sigAlgo = UnknownSignatureAlgorithm
        THEN GenResult(None, ErrKeyUnavailable, log0)
        ELSE IF ~req.CA.isNil /\ ca.err # NoError
        THEN GenResult(None, WithMessage(ca.err, MsgAppendCAInfo), log2)
        ELSE GenResult(made.csr, made.err, log3)


----------------------------------------------------------------------------
(* Package gm: dummy key store, public-key deriver, hasher *)

ErrKeyNotFound == NewError("Key not found. This is a dummy KeyStore")
ErrReadOnlyStore == NewError("Cannot store key. This is a dummy read-only KeyStore")
ErrNotImplemented == NewError("Not implemented")

\* NewDummyKeyStore(): the struct has no field, the store holds no key.
NewDummyKeyStore == {}

\* k.SKI(): the identifier of a key.
SKI(k) == IF k = "key1" THEN <<1>> ELSE <<2>>

\* (ks *dummyKeyStore) ReadOnly()
ReadOnly(store) == TRUE

\* (ks *dummyKeyStore) GetKey(ski)
GetKey(store, ski) == [k |-> Nil, err |-> ErrKeyNotFound]

\* StoreKey of a store that keeps the key.
StoreKeyKeeping(store, k) == [store |-> store \cup {k}, err |-> NoError]

\* (ks *dummyKeyStore) StoreKey(k): what the store holds afterwards, and the
\* error.
StoreKey(store, k) == [store |-> store, err |-> ErrReadOnlyStore]

\* KeyDeriv that re-randomizes a key when asked to.
KeyDerivReRand(k, opts) ==
    IF opts = "ECDSAReRandKeyOpts" THEN [dk |-> k, err |-> NoError]
    ELSE [dk |-> Nil, err |-> ErrNotImplemented]

\* (kd *smPublicKeyKeyDeriver) KeyDeriv(k, opts)
KeyDeriv(k, opts) == [dk |-> Nil, err |-> ErrNotImplemented]

\* h.Write(msg); h.Sum(nil) of the hash function alg: the digest of msg under
\* alg, told apart from the digest of any other message or function.
HashSum(alg, msg) == [alg |-> alg, of |-> msg]

\* (c *hasher) Hash(msg, opts): c.hash is the hasher's function.
Hash(c, msg, opts) == [hash |-> HashSum(c.hash, msg), err |-> NoError]

\* One entry of the call history.
Called(fn, recv, args, ret, err) ==
    [fn |-> fn, recv |-> recv, args |-> args, ret |-> ret, err |-> err]

----------------------------------------------------------------------------
(* Concurrent invocations.  Each goroutine runs one function on the inputs *)
(* all goroutines share; a step of a goroutine is one statement group of   *)
(* the function, so that steps of different goroutines interleave.  A step *)
(* yields the goroutine's new state and the memory (the shared inputs and  *)
(* the package variables) as the step leaves it.                           *)

Threads == 1..NumThreads

\* A goroutine about to call fn.
NewThread(fn) == [fn |-> fn, pc |-> "start", i |-> 0, acc |-> None, result |-> None]

\* The goroutine has returned value.
Return(t, value) == [t EXCEPT !.pc = "done", !.result = value]

\* The goroutine has panicked.
Panic(t) == [t EXCEPT !.pc = "panicked"]

\* ParseSm2Certificate2X509(mem.sm2Cert): the struct literal, then the loop
\* over ExtKeyUsage, one element a step.
StepParseSm2Certificate2X509(t, mem) ==
    LET in == mem.sm2Cert
    IN  IF t.pc = "start"
        THEN [t |-> [t EXCEPT !.pc = "loop", !.i = 1,
                        !.acc = ParseSm2Certificate2X509([in EXCEPT !.ExtKeyUsage = <<>>])],
              mem |-> mem]
        ELSE IF t.i > Len(in.ExtKeyUsage) THEN [t |-> Return(t, t.acc), mem |-> mem]
        ELSE [t |-> [t EXCEPT !.i = @ + 1,
                        !.acc = [t.acc EXCEPT !.ExtKeyUsage =
                                    Append(@, X509ExtKeyUsage(in.ExtKeyUsage[t.i]))]],
              mem |-> mem]

\* ParseX509Certificate2Sm2(mem.x509Cert), likewise.
StepParseX509Certificate2Sm2(t, mem) ==
    LET in == mem.x509Cert
    IN  IF t.pc = "start"
        THEN [t |-> [t EXCEPT !.pc = "loop", !.i = 1,
                        !.acc = ParseX509Certificate2Sm2([in EXCEPT !.ExtKeyUsage = <<>>])],
              mem |-> mem]
        ELSE IF t.i > Len(in.ExtKeyUsage) THEN [t |-> Return(t, t.acc), mem |-> mem]
        ELSE [t |-> [t EXCEPT !.i = @ + 1,
                        !.acc = [t.acc EXCEPT !.ExtKeyUsage =
                                    Append(@, Sm2ExtKeyUsage(in.ExtKeyUsage[t.i]))]],
              mem |-> mem]

\* CreateToken on mem.tin: parse and assemble the payload, then Hash, then
\* Sign and emit.
StepCreateToken(t, mem) ==
    LET a == mem.tin
        got == GetX509CertificateFromPEM(a.cert)
        b64cert == B64Encode(a.cert)
        payload == IF a.fabCACompatibilityMode
                   THEN B64Encode(a.body) \o <<Dot>> \o b64cert
                   ELSE a.method \o <<Dot>> \o B64Encode(a.uri) \o <<Dot>>
                        \o B64Encode(a.body) \o <<Dot>> \o b64cert
        failed(err) == Return(t, [token |-> <<>>, err |-> err])
    IN  IF t.pc = "start" THEN
            IF got.err # NoError THEN [t |-> failed(got.err), mem |-> mem]
            ELSE IF got.cert.type = "nil" THEN [t |-> Panic(t), mem |-> mem]
            ELSE IF got.cert.PublicKey.type \in {"*ecdsa.PublicKey", "*sm2.PublicKey"}
            THEN [t |-> [t EXCEPT !.pc = "hash",
                            !.acc = [b64cert |-> b64cert, payload |-> payload]],
                  mem |-> mem]
            ELSE [t |-> failed(NoError), mem |-> mem]
        ELSE IF t.pc = "hash" THEN
            IF a.csp.hash.err # NoError
            THEN [t |-> failed(WithMessage(a.csp.hash.err, MsgDigestFailed)), mem |-> mem]
            ELSE [t |-> [t EXCEPT !.pc = "sign"], mem |-> mem]
        ELSE
            IF a.csp.sign.err # NoError
            THEN [t |-> failed(WithMessage(a.csp.sign.err, MsgSignatureFailed)),
                  mem |-> mem]
            ELSE IF Len(a.csp.sign.signature) = 0
            THEN [t |-> failed(ErrEmptySignature), mem |-> mem]
            ELSE [t |-> Return(t, [token |-> t.acc.b64cert \o <<Dot>>
                                               \o B64Encode(a.csp.sign.signature),
                                   err |-> NoError]),
                  mem |-> mem]

\* generate on mem.gin: the algorithm and the template, then the hosts, one a
\* step, then the CA extension, then signing.
StepGenerate(t, mem) ==
    LET a == mem.gin
        sigAlgo == signerAlgo(a.priv.Public)
        failed(err) == Return(t, [csr |-> None, err |-> err])
    IN  IF t.pc = "start" THEN
            IF sigAlgo = UnknownSignatureAlgorithm
            THEN [t |-> failed(ErrKeyUnavailable), mem |-> mem]
            ELSE [t |-> [t EXCEPT !.pc = "hosts", !.i = 1,
                            !.acc = [Subject |-> a.req.Name,
                                     SignatureAlgorithm |-> sigAlgo,
                                     IPAddresses |-> <<>>, EmailAddresses |-> <<>>,
                                     DNSNames |-> <<>>, ExtraExtensions |-> <<>>]],
                  mem |-> mem]
        ELSE IF t.pc = "hosts" THEN
            IF t.i > Len(a.req.Hosts) THEN [t |-> [t EXCEPT !.pc = "ca"], mem |-> mem]
            ELSE [t |-> [t EXCEPT !.i = @ + 1,
                            !.acc = ClassifyHosts(t.acc, <<a.req.Hosts[t.i]>>, 1)],
                  mem |-> mem]
        ELSE IF t.pc = "ca" THEN
            IF a.req.CA.isNil THEN [t |-> [t EXCEPT !.pc = "create"], mem |-> mem]
            ELSE LET ca == appendCAInfoToCSRSm2(a.req.CA, t.acc, a.env.marshalFails)
                 IN  IF ca.err # NoError
                     THEN [t |-> failed(WithMessage(ca.err, MsgAppendCAInfo)), mem |-> mem]
                     ELSE [t |-> [t EXCEPT !.pc = "create", !.acc = ca.csreq], mem |-> mem]
        ELSE LET made == CreateSm2CertificateRequestToMem(t.acc, a.key, a.env.signer)
             IN  [t |-> Return(t, [csr |-> made.csr, err |-> made.err]), mem |-> mem]

\* One step of goroutine t.
Step(t, mem) ==
    IF t.fn = "ParseSm2Certificate2X509" THEN StepParseSm2Certificate2X509(t, mem)
    ELSE IF t.fn = "ParseX509Certificate2Sm2" THEN StepParseX509Certificate2Sm2(t, mem)
    ELSE IF t.fn = "CreateToken" THEN StepCreateToken(t, mem)
    ELSE StepGenerate(t, mem)

\* What an invocation of fn does when it runs alone on the memory mem:
\* it returns a value or panics.
Alone(fn, mem) ==
    IF fn = "ParseSm2Certificate2X509"
    THEN [status |-> "returned", value |-> ParseSm2Certificate2X509(mem.sm2Cert)]
    ELSE IF fn = "ParseX509Certificate2Sm2"
    THEN [status |-> "returned", value |-> ParseX509Certificate2Sm2(mem.x509Cert)]
    ELSE IF fn = "CreateToken"
    THEN LET a == mem.tin
             r == CreateToken(a.csp, a.cert, a.key, a.method, a.uri, a.body,
                              a.fabCACompatibilityMode)
         IN  IF r.panicked THEN [status |-> "panicked", value |-> None]
             ELSE [status |-> "returned", value |-> [token |-> r.token, err |-> r.err]]
    ELSE LET a == mem.gin
             r == generate(a.priv, a.req, a.key, a.env)
         IN  [status |-> "returned", value |-> [csr |-> r.csr, err |-> r.err]]

\* How the invocation of goroutine t ended: it returned a value, it
\* panicked, or the process ended under it before it returned.
Outcome(t) ==
    IF t.pc = "done" THEN [status |-> "returned", value |-> t.result]
    ELSE IF t.pc = "panicked" THEN [status |-> "panicked", value |-> None]
    ELSE [status |-> "killed", value |-> None]

----------------------------------------------------------------------------
(* Inputs of the model *)

\* Names of the certificate fields that are copied as they are or cast.
CertFields == DOMAIN DefaultCert("x509") \ {"type", "ExtKeyUsage"}

\* Extended-key-usage lists of up to MaxEKU entries.
EKULists(ns) == SeqsUpTo({Tag(ns, 1), Tag(ns, 2)}, MaxEKU)

\* The certificate of representation ns whose fields in S are set and whose
\* extended-key-usage list is eku.
MkCert(ns, S, eku) ==
    [f \in DOMAIN DefaultCert(ns) |->
        IF f = "ExtKeyUsage" THEN eku
        ELSE IF f \in S THEN AltCert(ns)[f] ELSE DefaultCert(ns)[f]]

\* Certificates with up to two fields set, or one field and a usage list.
BridgeCerts(ns) ==
    {MkCert(ns, {a, b}, <<>>) : a \in CertFields, b \in CertFields}
    \cup {MkCert(ns, {a}, e) : a \in {"Raw", "KeyUsage"}, e \in EKULists(ns)}

\* Crypto providers: Hash answers a digest or an error, Sign a signature
\* (possibly of length zero) or an error.
HashAnswers ==
    {[digest |-> <<17, 34>>, err |-> NoError],
     [digest |-> <<>>, err |-> NewError("hash: unsupported")]}
SignAnswers ==
    {[signature |-> s, err |-> NoError] : s \in SeqsUpTo({255}, MaxLen)}
    \cup {[signature |-> <<>>, err |-> NewError("sign: bad key")]}
Providers == [hash : HashAnswers, sign : SignAnswers]

CertInputs == {<<>>, <<45>>, <<45, 1>>, <<45, 2>>, <<45, 3, 3>>, <<45, 4>>}
Methods == {<<71, 69, 84>>, <<80, 79, 83, 84>>}     \* "GET", "POST"
Uris == SeqsUpTo({47}, MaxLen)                      \* "", "/", "//"
Bodies == SeqsUpTo({0, 255}, MaxLen)

TokenInputs ==
    [csp : Providers, cert : CertInputs, key : {"key1"}, method : Methods,
     uri : Uris, body : Bodies, fabCACompatibilityMode : BOOLEAN]

\* GetEnrollmentIDFromPEM reads the certificate only.
EnrollInputs ==
    {t \in TokenInputs :
        /\ t.csp = CHOOSE p \in Providers : TRUE
        /\ t.method = CHOOSE m \in Methods : TRUE
        /\ t.uri = <<>> /\ t.body = <<>> /\ ~t.fabCACompatibilityMode}

Hosts == {"10.0.0.1", "::1", "a@b.com", "Bob <bob@b.com>", "example.org"}
\* A path length counts certificates (pathLenConstraint is INTEGER (0..MAX)).
CAConfigs ==
    {NilCA} \cup [isNil : {FALSE}, PathLength : 0..MaxPathLen, PathLenZero : BOOLEAN]
Templates ==
    [Name : {[CommonName |-> "test"]}, Hosts : SeqsUpTo(Hosts, MaxHosts),
     CA : CAConfigs, SerialNumber : {"", "01"}]
Signers == [Public : {PubSM2, PubSM2OtherCurve, PubECDSA, PubRSA}]
Environments ==
    {[marshalFails |-> FALSE, signer |-> [signature |-> <<48, 69>>, err |-> NoError]],
     [marshalFails |-> TRUE, signer |-> [signature |-> <<48, 69>>, err |-> NoError]],
     [marshalFails |-> FALSE, signer |-> [signature |-> <<>>, err |-> NoError]],
     [marshalFails |-> FALSE,
      signer |-> [signature |-> <<>>, err |-> NewError("sm2: sign failed")]]}
GenerateInputs == [priv : Signers, req : Templates, key : {"key1"}, env : Environments]


\* What ioutil.ReadFile answers, and the times the check may run at (the
\* certificates of the model are valid from 0 to 0).
FileReads ==
    {[bytes |-> c, err |-> NoError] : c \in CertInputs}
    \cup {[bytes |-> <<>>, err |-> NewError("open: no such file or directory")]}
Times == {-1, 0, 1}
DatesInputs == [file : FileReads, now : Times]

\* The inputs goroutines share: one national certificate and its standard
\* twin, a few token arguments and a few requests.
SharedCert == MkCert("sm2", {"KeyUsage"}, <<Tag("sm2", 2), Tag("sm2", 1)>>)
SharedTokenInputs ==
    [csp : [hash : {[digest |-> <<17, 34>>, err |-> NoError]},
            sign : {[signature |-> <<255>>, err |-> NoError],
                    [signature |-> <<>>, err |-> NoError]}],
     cert : {<<45>>, <<45, 1>>, <<45, 4>>}, key : {"key1"},
     method : {<<71, 69, 84>>}, uri : {<<47>>}, body : {<<255>>},
     fabCACompatibilityMode : BOOLEAN]
SharedGenerateInputs ==
    [priv : [Public : {PubSM2, PubECDSA}],
     req : [Name : {[CommonName |-> "test"]}, Hosts : {<<"::1", "Bob <bob@b.com>">>},
            CA : {[isNil |-> FALSE, PathLength |-> 0, PathLenZero |-> FALSE]},
            SerialNumber : {""}],
     key : {"key1"},
     env : {[marshalFails |-> FALSE,
             signer |-> [signature |-> <<48, 69>>, err |-> NoError]]}]
Functions ==
    {"ParseSm2Certificate2X509", "ParseX509Certificate2Sm2", "CreateToken", "generate"}

Keys == {"key1", "key2"}
SKIs == {SKI(k) : k \in Keys} \cup {<<9>>}
KeyDerivOpts == {Nil, "ECDSAReRandKeyOpts"}
Hashers == [hash : {"SM3", "SHA256"}]
HashOpts == {"SM3", "SHA256", "SHA3_256"}
Messages == {<<>>, <<97>>}

----------------------------------------------------------------------------
(* The state machine: a run picks one operation and its arguments, then   *)
(* the operation runs.                                                    *)

InitBridge ==
    /\ op = "bridge" /\ pc = "call"
    /\ orig \in BridgeCerts("x509") \cup BridgeCerts("sm2")
    /\ cert = orig /\ hops = 0
    /\ tin = None /\ tout = None /\ calls = <<>> /\ gin = None /\ gout = None
    /\ ks = {} /\ hist = <<>> /\ globals = PackageVars /\ thr = <<>>

InitToken ==
    /\ pc = "call"
    /\ \/ op \in {"CreateToken", "GenECDSAToken"} /\ tin \in TokenInputs
       \/ op = "GetEnrollmentIDFromPEM" /\ tin \in EnrollInputs
       \/ op = "checkCertDates" /\ tin \in DatesInputs
    /\ tout = None /\ calls = <<>>
    /\ cert = NilCert /\ orig = NilCert /\ hops = 0 /\ gin = None /\ gout = None
    /\ ks = {} /\ hist = <<>> /\ globals = PackageVars /\ thr = <<>>

InitCSR ==
    /\ op = "generate" /\ pc = "call"
    /\ gin \in GenerateInputs
    /\ gout = None /\ calls = <<>>
    /\ cert = NilCert /\ orig = NilCert /\ hops = 0 /\ tin = None /\ tout = None
    /\ ks = {} /\ hist = <<>> /\ globals = PackageVars /\ thr = <<>>

InitGm ==
    /\ op \in {"keystore", "keyderiv", "hasher"} /\ pc = "call"
    /\ ks = NewDummyKeyStore /\ hist = <<>> /\ globals = PackageVars /\ thr = <<>>
    /\ cert = NilCert /\ orig = NilCert /\ hops = 0
    /\ tin = None /\ tout = None /\ calls = <<>> /\ gin = None /\ gout = None

InitConcurrent ==
    /\ op = "concurrent" /\ pc = "call"
    /\ orig = SharedCert /\ cert = ParseSm2Certificate2X509(SharedCert)
    /\ tin \in SharedTokenInputs /\ gin \in SharedGenerateInputs
    /\ globals = PackageVars
    /\ thr \in {[i \in Threads |-> NewThread(f[i])] : f \in [Threads -> Functions]}
    /\ hops = 0 /\ tout = None /\ calls = <<>> /\ gout = None
    /\ ks = {} /\ hist = <<>>

Init == InitBridge \/ InitToken \/ InitCSR \/ InitGm \/ InitConcurrent

\* ParseX509Certificate2Sm2 applied to the certificate held
ToNational ==
    /\ op = "bridge" /\ hops < MaxHops
    /\ cert.type = "x509.Certificate"
    /\ cert' = ParseX509Certificate2Sm2(cert)
    /\ hops' = hops + 1
    /\ UNCHANGED <<op, pc, orig, tin, tout, calls, gin, gout, ks, hist, globals, thr>>

\* ParseSm2Certificate2X509 applied to the certificate held
ToStandard ==
    /\ op = "bridge" /\ hops < MaxHops
    /\ cert.type = "sm2.Certificate"
    /\ cert' = ParseSm2Certificate2X509(cert)
    /\ hops' = hops + 1
    /\ UNCHANGED <<op, pc, orig, tin, tout, calls, gin, gout, ks, hist, globals, thr>>

Returned(r) == [token |-> r.token, err |-> r.err, panicked |-> r.panicked]

CallCreateToken ==
    /\ op = "CreateToken" /\ pc = "call"
    /\ LET r == CreateToken(tin.csp, tin.cert, tin.key, tin.method, tin.uri,
                            tin.body, tin.fabCACompatibilityMode)
       IN  tout' = Returned(r) /\ calls' = r.calls
    /\ pc' = "done"
    /\ UNCHANGED <<op, cert, orig, hops, tin, gin, gout, ks, hist, globals, thr>>

CallGenECDSAToken ==
    /\ op = "GenECDSAToken" /\ pc = "call"
    /\ LET r == GenECDSAToken(tin.csp, tin.cert, tin.key, tin.method, tin.uri,
                              tin.body, tin.fabCACompatibilityMode)
       IN  tout' = Returned(r) /\ calls' = r.calls
    /\ pc' = "done"
    /\ UNCHANGED <<op, cert, orig, hops, tin, gin, gout, ks, hist, globals, thr>>

CallGetEnrollmentIDFromPEM ==
    /\ op = "GetEnrollmentIDFromPEM" /\ pc = "call"
    /\ tout' = GetEnrollmentIDFromPEM(tin.cert)
    /\ pc' = "done"
    /\ UNCHANGED <<op, cert, orig, hops, tin, calls, gin, gout, ks, hist, globals, thr>>

CallCheckCertDates ==
    /\ op = "checkCertDates" /\ pc = "call"
    /\ tout' = checkCertDates(tin.file, tin.now)
    /\ pc' = "done"
    /\ UNCHANGED <<op, cert, orig, hops, tin, calls, gin, gout, ks, hist, globals, thr>>

CallGenerate ==
    /\ op = "generate" /\ pc = "call"
    /\ LET r == generate(gin.priv, gin.req, gin.key, gin.env)
       IN  gout' = [csr |-> r.csr, err |-> r.err] /\ calls' = r.calls
    /\ pc' = "done"
    /\ UNCHANGED <<op, cert, orig, hops, tin, tout, gin, ks, hist, globals, thr>>


CallStoreKey ==
    /\ op = "keystore" /\ Len(hist) < MaxCalls
    /\ \E k \in Keys :
          LET r == StoreKey(ks, k)
          IN  /\ ks' = r.store
              /\ hist' = Append(hist, Called("StoreKey", "ks", k, Nil, r.err))
    /\ UNCHANGED <<op, pc, cert, orig, hops, tin, tout, calls, gin, gout, globals, thr>>

CallGetKey ==
    /\ op = "keystore" /\ Len(hist) < MaxCalls
    /\ \E ski \in SKIs :
          LET r == GetKey(ks, ski)
          IN  hist' = Append(hist, Called("GetKey", "ks", ski, r.k, r.err))
    /\ UNCHANGED <<op, pc, cert, orig, hops, tin, tout, calls, gin, gout, ks, globals, thr>>

CallReadOnly ==
    /\ op = "keystore" /\ Len(hist) < MaxCalls
    /\ hist' = Append(hist, Called("ReadOnly", "ks", Nil, ReadOnly(ks), NoError))
    /\ UNCHANGED <<op, pc, cert, orig, hops, tin, tout, calls, gin, gout, ks, globals, thr>>

CallKeyDeriv ==
    /\ op = "keyderiv" /\ Len(hist) < MaxCalls
    /\ \E k \in Keys, opts \in KeyDerivOpts :
          LET r == KeyDeriv(k, opts)
          IN  hist' = Append(hist, Called("KeyDeriv", "kd",
                                          [k |-> k, opts |-> opts], r.dk, r.err))
    /\ UNCHANGED <<op, pc, cert, orig, hops, tin, tout, calls, gin, gout, ks, globals, thr>>

CallHash ==
    /\ op = "hasher" /\ Len(hist) < MaxCalls
    /\ \E c \in Hashers, msg \in Messages, opts \in HashOpts :
          LET r == Hash(c, msg, opts)
          IN  hist' = Append(hist, Called("Hash", c,
                                          [msg |-> msg, opts |-> opts], r.hash, r.err))
    /\ UNCHANGED <<op, pc, cert, orig, hops, tin, tout, calls, gin, gout, ks, globals, thr>>

\* The memory the goroutines work on.
Mem == [sm2Cert |-> orig, x509Cert |-> cert, tin |-> tin, gin |-> gin,
        globals |-> globals]

\* Goroutine i takes a step.  A panic no one recovers ends the process: the
\* goroutines that have not returned never do.
ThreadStep(i) ==
    /\ op = "concurrent"
    /\ thr[i].pc \notin {"done", "panicked", "killed"}
    /\ LET r == Step(thr[i], Mem)
       IN  /\ thr' = IF r.t.pc = "panicked"
                     THEN [j \in Threads |->
                             IF j = i THEN r.t
                             ELSE IF thr[j].pc = "done" THEN thr[j]
                             ELSE [thr[j] EXCEPT !.pc = "killed"]]
                     ELSE [thr EXCEPT ![i] = r.t]
           /\ orig' = r.mem.sm2Cert /\ cert' = r.mem.x509Cert
           /\ tin' = r.mem.tin /\ gin' = r.mem.gin
           /\ globals' = r.mem.globals
    /\ UNCHANGED <<op, pc, hops, tout, calls, gout, ks, hist>>

Next ==
    \/ ToNational
    \/ ToStandard
    \/ CallCreateToken
    \/ CallGenECDSAToken
    \/ CallGetEnrollmentIDFromPEM
    \/ CallGenerate
    \/ CallCheckCertDates
    \/ CallStoreKey
    \/ CallGetKey
    \/ CallReadOnly
    \/ CallKeyDeriv
    \/ CallHash
    \/ \E i \in Threads : ThreadStep(i)

Spec == Init /\ [][Next]_vars


----------------------------------------------------------------------------
(* Properties *)

TokenCallDone == op \in {"CreateToken", "GenECDSAToken"} /\ pc = "done"
GenerateDone == op = "generate" /\ pc = "done"

\* C1: converting a certificate to the other representation and back gives
\* the certificate started from, field for field, the extended-key-usage
\* list included, element by element and in the same order; this holds from
\* a standard certificate and from a national certificate.
RoundTripIdentity ==
    (op = "bridge" /\ hops > 0 /\ hops % 2 = 0) => cert = orig

\* A standard certificate with two different key usages, in an order that
\* matters, has gone to the national representation and back.
RoundTripWitness ==
    /\ op = "bridge" /\ hops = 2
    /\ orig.type = "x509.Certificate"
    /\ Len(orig.ExtKeyUsage) = 2
    /\ orig.ExtKeyUsage[1] # orig.ExtKeyUsage[2]
    /\ orig.KeyUsage = Tag("x509", 5)
    /\ cert = orig

\* The payload the protocol prescribes for the arguments t.
PrescribedPayload(t) ==
    IF t.fabCACompatibilityMode
    THEN B64Encode(t.body) \o <<Dot>> \o B64Encode(t.cert)
    ELSE t.method \o <<Dot>> \o B64Encode(t.uri) \o <<Dot>> \o B64Encode(t.body)
         \o <<Dot>> \o B64Encode(t.cert)

\* C2: the message GenECDSAToken hands to the provider's Hash is
\* base64(body).base64(cert) in compatibility mode and
\* method.base64(uri).base64(body).base64(cert) otherwise; GenECDSAToken
\* always calls Hash, first.
PayloadSelection ==
    /\ (op = "GenECDSAToken" /\ pc = "done") => (Len(calls) >= 1 /\ calls[1].fn = "Hash")
    /\ TokenCallDone =>
         \A i \in 1..Len(calls) :
            calls[i].fn = "Hash" => calls[i].msg = PrescribedPayload(tin)

\* GenECDSAToken has hashed the legacy payload "/wA=.LQE=" of a two-byte
\* body and a two-byte certificate.
PayloadSelectionWitness ==
    /\ op = "GenECDSAToken" /\ pc = "done"
    /\ tin.fabCACompatibilityMode
    /\ tin.body = <<255, 0>> /\ tin.cert = <<45, 1>>
    /\ calls[1].msg = <<47, 119, 65, 61, Dot, 76, 81, 69, 61>>

\* C3: a token CreateToken returns without error is base64 of the
\* certificate bytes as passed in, a dot, and base64 of the signature the
\* provider's Sign returned, whatever the mode, method, uri and body.
TokenFormat ==
    (TokenCallDone /\ ~tout.panicked /\ tout.err = NoError /\ tout.token # <<>>) =>
        /\ tout.token = B64Encode(tin.cert) \o <<Dot>> \o B64Encode(tin.csp.sign.signature)
        /\ \E i \in 1..Len(calls) :
              calls[i].fn = "Sign" /\ calls[i].key = tin.key

\* CreateToken has returned the token "LQE=./w==" in the modern mode.
TokenFormatWitness ==
    /\ op = "CreateToken" /\ pc = "done"
    /\ ~tin.fabCACompatibilityMode
    /\ tout.err = NoError
    /\ tout.token = <<76, 81, 69, 61, Dot, 47, 119, 61, 61>>

\* Sign was called and answered a signature of length zero without error.
SignAnsweredEmpty ==
    /\ \E i \in 1..Len(calls) : calls[i].fn = "Sign"
    /\ tin.csp.sign = [signature |-> <<>>, err |-> NoError]

\* The signing primitive under generate was called and answered a signature
\* of length zero without error.
CSRSignAnsweredEmpty ==
    /\ \E i \in 1..Len(calls) : calls[i] = "gm.CreateSm2CertificateRequestToMem"
    /\ gin.env.signer = [signature |-> <<>>, err |-> NoError]

KeyGating ==
    (GenerateDone /\ gin.priv.Public.type # "*sm2.PublicKey") =>
        /\ gout.err = ErrKeyUnavailable
        /\ gout.csr = None
        /\ calls = <<"priv.Public">>

\* generate was given an ECDSA key and a template with hosts and a CA
\* configuration, and failed.
KeyGatingWitness ==
    /\ GenerateDone
    /\ gin.priv.Public = PubECDSA
    /\ Len(gin.req.Hosts) > 0 /\ ~gin.req.CA.isNil
    /\ gout.err = ErrKeyUnavailable


\* C6: signerAlgo yields UnknownSignatureAlgorithm for every key that is not
\* a national key on the recognized curve, a national key on another curve
\* included, so that generate fails with the key-unavailable error for it.
UnrecognizedKeyRejected ==
    (GenerateDone /\ gin.priv.Public # PubSM2) =>
        /\ signerAlgo(gin.priv.Public) = UnknownSignatureAlgorithm
        /\ gout.err = ErrKeyUnavailable

\* The hosts of the list that are IP literals, parsed, in the list's order.
HostIPs(hosts) ==
    LET sel == SelectSeq(hosts, LAMBDA h : ParseIP(h).ok)
    IN  [i \in 1..Len(sel) |-> ParseIP(sel[i]).ip]

\* The hosts that are no IP literal but an email address, as canonical
\* addresses, in the list's order.
HostEmails(hosts) ==
    LET sel == SelectSeq(hosts, LAMBDA h : ~ParseIP(h).ok /\ ParseAddress(h).ok)
    IN  [i \in 1..Len(sel) |-> ParseAddress(sel[i]).Address]

\* The remaining hosts, verbatim, in the list's order.
HostDNSNames(hosts) ==
    SelectSeq(hosts, LAMBDA h : ~ParseIP(h).ok /\ ~ParseAddress(h).ok)

\* C7: every host of the template is in exactly one list of the request: the
\* IP list if it is an IP literal, else the email list (as the canonical
\* address) if it is an email address, else the DNS list verbatim; each list
\* keeps the template's order and the three lists together have as many
\* entries as the template has hosts.
HostClassification ==
    (GenerateDone /\ gout.err = NoError) =>
        LET r == gout.csr.request
        IN  /\ r.IPAddresses = HostIPs(gin.req.Hosts)
            /\ r.EmailAddresses = HostEmails(gin.req.Hosts)
            /\ r.DNSNames = HostDNSNames(gin.req.Hosts)
            /\ Len(r.IPAddresses) + Len(r.EmailAddresses) + Len(r.DNSNames)
                 = Len(gin.req.Hosts)

\* generate has built a request from an email address with a display name
\* between two IP literals.
HostClassificationWitness ==
    /\ GenerateDone /\ gout.err = NoError
    /\ gin.req.Hosts = <<"::1", "Bob <bob@b.com>", "10.0.0.1">>
    /\ gout.csr.request.IPAddresses = <<<<0, 0, 0, 1>>, <<10, 0, 0, 1>>>>
    /\ gout.csr.request.EmailAddresses = <<"bob@b.com">>
    /\ gout.csr.request.DNSNames = <<>>

BasicConstraintsExtension ==
    (GenerateDone /\ gout.err = NoError) =>
        LET exts == gout.csr.request.ExtraExtensions
        IN  IF gin.req.CA.isNil THEN exts = <<>>
            ELSE /\ Len(exts) = 1
                 /\ exts[1].Id = <<2, 5, 29, 19>>
                 /\ exts[1].Critical = TRUE
                 /\ exts[1].Value.IsCA = TRUE
                 /\ DOMAIN exts[1].Value = {"IsCA", "MaxPathLen"}

\* A request was built from a template with a CA configuration and hosts.
BasicConstraintsWitness ==
    /\ GenerateDone /\ gout.err = NoError
    /\ ~gin.req.CA.isNil /\ gin.req.CA.PathLength = 1
    /\ Len(gout.csr.request.ExtraExtensions) = 1
    /\ gout.csr.request.ExtraExtensions[1].Critical

\* The inputs in which pem.Decode finds no block: the empty input and the
\* input with a broken armour.
NoPemInputs == {<<>>, <<45>>}

\* C10: for an input without a decodable PEM block GetX509CertificateFromPEM
\* returns no certificate and the invalid-PEM error; CreateToken and
\* GetEnrollmentIDFromPEM return that very error, and the provider's Hash
\* and Sign are not called.
InvalidPEMRejected ==
    /\ (op \in {"CreateToken", "GetEnrollmentIDFromPEM"} /\ tin.cert \in NoPemInputs) =>
          GetX509CertificateFromPEM(tin.cert) = [cert |-> NilCert, err |-> ErrInvalidPEM]
    /\ (op = "CreateToken" /\ pc = "done" /\ tin.cert \in NoPemInputs) =>
          /\ tout.err = ErrInvalidPEM /\ tout.token = <<>> /\ ~tout.panicked
          /\ calls = <<>>
    /\ (op = "GetEnrollmentIDFromPEM" /\ pc = "done" /\ tin.cert \in NoPemInputs) =>
          /\ tout.err = ErrInvalidPEM /\ tout.id = "" /\ ~tout.panicked
          /\ calls = <<>>

\* CreateToken was given an input with a broken armour and a working
\* provider, and failed.
InvalidPEMWitness ==
    /\ op = "CreateToken" /\ pc = "done"
    /\ tin.cert = <<45>>
    /\ tin.csp.hash.err = NoError /\ tin.csp.sign.err = NoError
    /\ tout.err = ErrInvalidPEM


\* C11: after any sequence of StoreKey, GetKey and ReadOnly calls on the
\* dummy key store, every StoreKey has failed with the read-only error, every
\* GetKey has failed with the key-not-found error and returned no key, ReadOnly
\* has answered true, and a GetKey for any identifier, that of a key StoreKey
\* was tried with included, would fail the same way.
DummyKeyStoreAlwaysFails ==
    op = "keystore" =>
        /\ \A i \in 1..Len(hist) :
              /\ hist[i].fn = "StoreKey" => hist[i].err = ErrReadOnlyStore
              /\ hist[i].fn = "GetKey" =>
                    (hist[i].err = ErrKeyNotFound /\ hist[i].ret = Nil)
              /\ hist[i].fn = "ReadOnly" => hist[i].ret = TRUE
        /\ ks = {}
        /\ \A ski \in SKIs : GetKey(ks, ski) = [k |-> Nil, err |-> ErrKeyNotFound]
        /\ ReadOnly(ks)

\* StoreKey was tried with a key, and a GetKey for that key's identifier
\* followed and failed.
DummyKeyStoreWitness ==
    /\ op = "keystore" /\ Len(hist) >= 2
    /\ hist[1].fn = "StoreKey" /\ hist[1].args = "key1"
    /\ hist[1].err = ErrReadOnlyStore
    /\ hist[2].fn = "GetKey" /\ hist[2].args = SKI("key1")
    /\ hist[2].err = ErrKeyNotFound

\* C12: every KeyDeriv call on the national public-key deriver fails with the
\* not-implemented error and returns no key, for every key and options value,
\* also when the same call is repeated.
KeyDerivNeverImplemented ==
    op = "keyderiv" =>
        \A i \in 1..Len(hist) :
            hist[i].err = ErrNotImplemented /\ hist[i].ret = Nil

\* The same KeyDeriv call, with re-randomization options, was made three
\* times and failed three times.
KeyDerivWitness ==
    /\ op = "keyderiv" /\ Len(hist) >= 3
    /\ hist[1].args = [k |-> "key1", opts |-> "ECDSAReRandKeyOpts"]
    /\ hist[2].args = hist[1].args /\ hist[3].args = hist[1].args
    /\ hist[3].err = ErrNotImplemented

\* C13: Hash of the hasher uses the algorithm its options name: it fails with
\* an unsupported-algorithm error when the options name an algorithm the
\* hasher lacks, and a digest it returns is that of the algorithm named.
HashSelectsAlgorithmFromOpts ==
    op = "hasher" =>
        \A i \in 1..Len(hist) :
            IF hist[i].args.opts = hist[i].recv.hash
            THEN /\ hist[i].err = NoError
                 /\ hist[i].ret = HashSum(hist[i].args.opts, hist[i].args.msg)
            ELSE hist[i].err # NoError


\* The public key of the certificate the national parser reads from the
\* block of a PEM input.
PublicKeyTypeOf(certBytes) ==
    Sm2ParseCertificate(PemDecode(certBytes).Bytes).cert.PublicKey.type

\* The PEM input holds a block the national parser accepts.
Parses(certBytes) ==
    /\ PemDecode(certBytes).found
    /\ Sm2ParseCertificate(PemDecode(certBytes).Bytes).err = NoError

\* C15: CreateToken hands a certificate with a standard-ECDSA or a national
\* public key to GenECDSAToken and returns what it returns; for a certificate
\* with any other public key it returns the empty token and no error, and
\* calls neither Hash nor Sign.
PublicKeyRouting ==
    (op = "CreateToken" /\ pc = "done" /\ Parses(tin.cert)) =>
        IF PublicKeyTypeOf(tin.cert) \in {"*ecdsa.PublicKey", "*sm2.PublicKey"}
        THEN LET r == GenECDSAToken(tin.csp, tin.cert, tin.key, tin.method, tin.uri,
                                    tin.body, tin.fabCACompatibilityMode)
             IN  /\ tout = Returned(r)
                 /\ calls = r.calls /\ calls # <<>>
        ELSE /\ tout.token = <<>> /\ tout.err = NoError /\ ~tout.panicked
             /\ calls = <<>>

\* CreateToken was given a certificate with an RSA key and returned nothing;
\* the provider would have signed.
PublicKeyRoutingWitness ==
    /\ op = "CreateToken" /\ pc = "done"
    /\ Parses(tin.cert)
    /\ PublicKeyTypeOf(tin.cert) = "*rsa.PublicKey"
    /\ tin.csp.hash.err = NoError /\ tin.csp.sign.err = NoError
    /\ Len(tin.csp.sign.signature) > 0
    /\ tout.token = <<>> /\ tout.err = NoError /\ calls = <<>>

\* C16: genECDSAToken calls Hash, then Sign, each at most once; Sign gets the
\* digest Hash returned; if Hash fails the call fails with the digest error
\* and Sign is not called; if Sign fails the call fails with the signature
\* error; a call that fails returns the empty token.
HashThenSign ==
    (TokenCallDone /\ ~tout.panicked) =>
        /\ Len(calls) <= 2
        /\ op = "GenECDSAToken" => Len(calls) >= 1
        /\ Len(calls) >= 1 => calls[1].fn = "Hash"
        /\ Len(calls) = 2 =>
              /\ calls[2].fn = "Sign"
              /\ tin.csp.hash.err = NoError
              /\ calls[2].msg = tin.csp.hash.digest
        /\ (Len(calls) >= 1 /\ tin.csp.hash.err # NoError) =>
              /\ Len(calls) = 1
              /\ tout.err = WithMessage(tin.csp.hash.err, MsgDigestFailed)
        /\ (Len(calls) >= 1 /\ tin.csp.hash.err = NoError) => Len(calls) = 2
        /\ (Len(calls) = 2 /\ tin.csp.sign.err # NoError) =>
              tout.err = WithMessage(tin.csp.sign.err, MsgSignatureFailed)
        /\ tout.err # NoError => tout.token = <<>>

\* Hash answered a digest, Sign was called with it and failed.
HashThenSignWitness ==
    /\ op = "GenECDSAToken" /\ pc = "done"
    /\ Len(calls) = 2
    /\ calls[2].msg = <<17, 34>>
    /\ tin.csp.sign.err # NoError
    /\ tout.err = WithMessage(tin.csp.sign.err, MsgSignatureFailed)
    /\ tout.token = <<>>

\* The PEM input an operation of the token protocol or the validity check
\* was given.
PEMInputOf(t) == IF op = "checkCertDates" THEN t.file.bytes ELSE t.cert

\* C17: for every input that holds a decodable PEM block, CreateToken,
\* GetEnrollmentIDFromPEM and checkCertDates return a value or an error, also
\* when the national parser rejects the block; none of them reads a field of
\* a nil certificate.
CompletesOnDecodablePEM ==
    (/\ op \in {"CreateToken", "GetEnrollmentIDFromPEM", "checkCertDates"}
     /\ pc = "done"
     /\ (op = "checkCertDates" => tin.file.err = NoError)
     /\ PemDecode(PEMInputOf(tin)).found)
    => ~tout.panicked


\* All goroutines have ended.
AllEnded == \A i \in Threads : thr[i].pc \in {"done", "panicked", "killed"}

\* C14: however concurrent invocations of the conversions, of CreateToken and
\* of generate on shared inputs interleave, each invocation ends as it does
\* when it runs alone, with the same result, and the shared inputs and the
\* package variables are what they were before.
ConcurrentAsAlone ==
    (op = "concurrent" /\ AllEnded) =>
        /\ \A i \in Threads : Outcome(thr[i]) = Alone(thr[i].fn, Mem)
        /\ orig = SharedCert /\ cert = ParseSm2Certificate2X509(SharedCert)
        /\ globals = PackageVars

\* No step of a goroutine writes to the shared inputs or to the package
\* variables.
ConcurrentInputsUntouched ==
    [][op = "concurrent" =>
         <<orig, cert, tin, gin, globals>>' = <<orig, cert, tin, gin, globals>>]_vars

\* Invocations none of which panics return what they return alone.
ConcurrentAsAloneWithoutPanic ==
    (op = "concurrent" /\ \A i \in Threads : thr[i].pc = "done") =>
        \A i \in Threads : Outcome(thr[i]) = Alone(thr[i].fn, Mem)

\* Goroutines that returned after running interleaved.
ConcurrentReturnedWitness ==
    /\ op = "concurrent" /\ \A i \in Threads : thr[i].pc = "done"
    /\ thr[1].fn = "generate" /\ thr[2].fn = "CreateToken"
    /\ thr[2].result.err = NoError /\ thr[2].result.token # <<>>

====
